---- MODULE Spec2Model ----
(***************************************************************************)
(* Model of src/tools/reports.ts: the report request dispatcher            *)
(* handleManageReports and the result formatter formatReportResults /      *)
(* formatGroupings.                                                        *)
(*                                                                         *)
(* JavaScript values.  An optional value is a sequence of length at most   *)
(* one: <<>> is undefined, <<v>> is the value v.  A string that the code   *)
(* builds from pieces (a template literal, a join) is the sequence of its  *)
(* pieces; String.includes(w) is "w is one of the pieces".                 *)
(***************************************************************************)
EXTENDS Integers, Sequences, FiniteSets, TLC

VARIABLES
  args,     \* the request passed to handleManageReports
  conn,     \* the connection passed to handleManageReports: what it will do when called
  pc,       \* "start", "await" (suspended on the awaited remote call), "done", "raised"
  calls,    \* the collaborator methods called so far, in order
  result,   \* <<>> until the invocation returns, then <<envelope>>
  raised,   \* <<>> unless the invocation rejected, then <<the value thrown>>
  caught,   \* history: <<>> until control reaches the catch block, then <<the value caught>>
  args0     \* history: the request as the caller passed it

vars == <<args, conn, pc, calls, result, raised, caught, args0>>

----------------------------------------------------------------------------
(* Bounds of the model                                                     *)

MaxFilters == 2
MaxMsgLen == 2
MaxNodes == 4
MaxAggs == 3
MaxRows == 2

----------------------------------------------------------------------------
(* JavaScript helpers                                                      *)

Undefined == <<>>
Some(v) == <<v>>

\* truthiness of an optional string, number, boolean
TruthyStr(m) == m # Undefined /\ m[1] # ""
TruthyNum(m) == m # Undefined /\ m[1] # 0
TruthyBool(m) == m # Undefined /\ m[1]

\* `${x}` of an optional string
Str(m) == IF m = Undefined THEN "undefined" ELSE m[1]

\* x || 'N/A' and x || 'none' of an optional string
OrElse(m, d) == IF TruthyStr(m) THEN m[1] ELSE d

\* a?.length > 0 of an optional sequence
NonEmpty(m) == m # Undefined /\ Len(m[1]) > 0

Range(s) == {s[i] : i \in 1..Len(s)}

SeqsUpTo(S, n) == UNION {[1..k -> S] : k \in 0..n}

\* parts.join(sep), each part a sequence of pieces
RECURSIVE Join(_, _)
Join(parts, sep) ==
  IF parts = <<>> THEN <<>>
  ELSE IF Len(parts) = 1 THEN parts[1]
  ELSE parts[1] \o <<sep>> \o Join(Tail(parts), sep)

\* '  '.repeat(n)
RECURSIVE Repeat(_, _)
Repeat(s, n) == IF n <= 0 THEN <<>> ELSE <<s>> \o Repeat(s, n - 1)

\* a TypeError raised by the runtime (reading a property of undefined, ...)
TypeError == [isError |-> TRUE, message |-> Some(<<"TypeError">>), str |-> Undefined]

Ok(v) == [threw |-> FALSE, value |-> v]
Threw(e) == [threw |-> TRUE, value |-> e]

----------------------------------------------------------------------------
(* The tool's operations                                                   *)

Operations == {"list", "describe", "execute", "executeAsync", "getInstances", "getInstanceResults"}

DefaultLimit == 200

----------------------------------------------------------------------------
(* Result Formatter                                                        *)
(*                                                                         *)
(* A line is the sequence of its pieces; the indentation '  '.repeat(n) is *)
(* n leading pieces "  ".  A formatter returns Ok(lines) or Threw(error).  *)

\* map[k] of a JavaScript object used as a dictionary
Lookup(map, k) == IF k \in DOMAIN map THEN Some(map[k]) ELSE Undefined

\* AggText preferring the raw value to the label
AggTextValueFirst(agg) ==
  IF agg.value # Undefined THEN agg.value[1]
  ELSE IF agg.label # Undefined THEN agg.label[1]
  ELSE "N/A"

\* agg.label ?? agg.value ?? 'N/A'
AggText(agg) ==
  IF agg.label # Undefined THEN agg.label[1]
  ELSE IF agg.value # Undefined THEN agg.value[1]
  ELSE "N/A"

\* cell.label ?? cell.value ?? ''
CellText(cell) ==
  IF cell.label # Undefined THEN cell.label[1]
  ELSE IF cell.value # Undefined THEN cell.value[1]
  ELSE ""

\* aggKeys[i] ? (aggregateInfo[aggKeys[i]]?.label || aggKeys[i]) : `Aggregate ${i}`
\* aggregateInfo is the insertion-ordered sequence of its [key, label] entries; i is 0-based
AggLabel(aggregateInfo, i) ==
  IF i + 1 <= Len(aggregateInfo) /\ aggregateInfo[i + 1].key # ""
  THEN OrElse(aggregateInfo[i + 1].label, aggregateInfo[i + 1].key)
  ELSE "Aggregate " \o ToString(i)

\* columnInfo[col]?.label || col
HeaderLabel(columnInfo, col) ==
  LET info == Lookup(columnInfo, col)
  IN IF info # Undefined /\ TruthyStr(info[1].label) THEN info[1].label[1] ELSE col

\* columnInfo[colName]?.label || colName || `Col${idx}`, colName = detailColumns[idx]
ColumnLabel(columnInfo, detailColumns, idx) ==
  IF idx + 1 <= Len(detailColumns) /\ detailColumns[idx + 1] # ""
  THEN HeaderLabel(columnInfo, detailColumns[idx + 1])
  ELSE "Col" \o ToString(idx)

\* metadata?.detailColumns || []
DetailColumnsOf(metadata) ==
  IF metadata # Undefined /\ metadata[1].detailColumns # Undefined
  THEN metadata[1].detailColumns[1] ELSE <<>>

\* the subtotal lines of one bucket, each behind `prefix`
AggregateLines(aggregates, aggregateInfo, prefix) ==
  [i \in 1..Len(aggregates) |->
     prefix \o <<"  ", AggLabel(aggregateInfo, i - 1), ": ", AggText(aggregates[i])>>]

\* row.dataCells.map(...) of the grouped rows: <<>> when some row has no dataCells
GroupRowLines(rows, columnInfo, detailColumns, indent) ==
  [r \in 1..Len(rows) |->
     LET cells == rows[r].dataCells[1]
     IN indent \o <<"  ", "  ">> \o
        Join([c \in 1..Len(cells) |->
                <<ColumnLabel(columnInfo, detailColumns, c - 1), ": ", CellText(cells[c])>>], ", ")]

RowsHaveCells(rows) == \A r \in 1..Len(rows) : rows[r].dataCells # Undefined

\* Indent ignoring the depth
IndentFlat(depth) == Repeat("  ", 1)

\* '  '.repeat(depth + 1)
Indent(depth) == Repeat("  ", depth + 1)

RECURSIVE formatGroupings(_, _, _, _, _, _, _)
formatGroupings(groupings, factMap, aggregateInfo, columnInfo, metadata, includeDetails, depth) ==
  IF groupings = <<>> THEN Ok(<<>>)
  ELSE
    LET indent == Indent(depth)
        group == Head(groupings)
        header == indent \o <<Str(group.label), " (", Str(group.value), "):">>
        key == Str(group.key) \o "!T"
        groupData == Lookup(factMap, key)
        aggs == IF groupData # Undefined /\ NonEmpty(groupData[1].aggregates)
                THEN AggregateLines(groupData[1].aggregates[1], aggregateInfo, indent)
                ELSE <<>>
        hasRows == includeDetails /\ groupData # Undefined /\ NonEmpty(groupData[1].rows)
        rows == IF hasRows THEN groupData[1].rows[1] ELSE <<>>
    IN IF hasRows /\ ~RowsHaveCells(rows) THEN Threw(TypeError)
       ELSE
         LET rowLines == IF hasRows
                         THEN <<indent \o <<"  ", "Rows (", ToString(Len(rows)), "):">>>> \o
                              GroupRowLines(rows, columnInfo, DetailColumnsOf(metadata), indent)
                         ELSE <<>>
             sub == IF NonEmpty(group.groupings)
                    THEN formatGroupings(group.groupings[1], factMap, aggregateInfo, columnInfo,
                                         metadata, includeDetails, depth + 1)
                    ELSE Ok(<<>>)
         IN IF sub.threw THEN sub
            ELSE LET rest == formatGroupings(Tail(groupings), factMap, aggregateInfo, columnInfo,
                                             metadata, includeDetails, depth)
                 IN IF rest.threw THEN rest
                    ELSE Ok(<<header>> \o aggs \o rowLines \o sub.value \o rest.value)

\* x?.groupings || []
GroupingsOf(g) == IF g # Undefined /\ g[1].groupings # Undefined THEN g[1].groupings[1] ELSE <<>>

formatReportResults(res, includeDetails) ==
  LET metadata == res.reportMetadata
      metaLines ==
        IF metadata = Undefined THEN <<>>
        ELSE << <<"Report: ", Str(metadata[1].name)>>,
                <<"Format: ", Str(metadata[1].reportFormat)>> >> \o
             (IF NonEmpty(metadata[1].reportFilters)
              THEN LET fs == metadata[1].reportFilters[1]
                   IN << <<"Active Filters: ", ToString(Len(fs))>> >> \o
                      [i \in 1..Len(fs) |->
                         <<"  - ", fs[i].column, " ", fs[i].operator, " ", fs[i].value>>]
              ELSE <<>>) \o
             << <<>> >>
      extendedMeta == res.reportExtendedMetadata
      columnInfo == IF extendedMeta # Undefined /\ extendedMeta[1].detailColumnInfo # Undefined
                    THEN extendedMeta[1].detailColumnInfo[1] ELSE <<>>
      aggregateInfo == IF extendedMeta # Undefined /\ extendedMeta[1].aggregateColumnInfo # Undefined
                       THEN extendedMeta[1].aggregateColumnInfo[1] ELSE <<>>
  IN IF res.factMap = Undefined
     THEN Ok(Join(metaLines \o << <<"No data returned.">> >>, "\n"))
     ELSE
       LET factMap == res.factMap[1]
           groupingsDown == GroupingsOf(res.groupingsDown)
           groupingsAcross == GroupingsOf(res.groupingsAcross)
           countLines ==
             (IF Len(groupingsDown) > 0
              THEN << <<"Row Groupings: ", ToString(Len(groupingsDown))>> >> ELSE <<>>) \o
             (IF Len(groupingsAcross) > 0
              THEN << <<"Column Groupings: ", ToString(Len(groupingsAcross))>> >> ELSE <<>>)
           grandTotals == Lookup(factMap, "T!T")
           totalLines ==
             IF grandTotals # Undefined /\ NonEmpty(grandTotals[1].aggregates)
             THEN << <<>>, <<"Grand Totals:">> >> \o
                  AggregateLines(grandTotals[1].aggregates[1], aggregateInfo, <<>>)
             ELSE <<>>
           hasRows == includeDetails /\ grandTotals # Undefined /\ grandTotals[1].rows # Undefined
           rows == IF hasRows THEN grandTotals[1].rows[1] ELSE <<>>
       IN IF hasRows /\ ~RowsHaveCells(rows) THEN Threw(TypeError)
          ELSE
            LET detailColumns == DetailColumnsOf(metadata)
                headerLabels == [i \in 1..Len(detailColumns) |->
                                   <<HeaderLabel(columnInfo, detailColumns[i])>>]
                detailLines ==
                  IF hasRows
                  THEN << <<>>, <<"Detail Rows (", ToString(Len(rows)), "):">> >> \o
                       (IF Len(headerLabels) > 0
                        THEN << <<"  | ">> \o Join(headerLabels, " | ") \o <<" |">>,
                                <<"  | ">> \o Join([i \in 1..Len(headerLabels) |-> <<"---">>], " | ")
                                           \o <<" |">> >>
                        ELSE <<>>) \o
                       [r \in 1..Len(rows) |->
                          <<"  | ">> \o
                          Join([c \in 1..Len(rows[r].dataCells[1]) |->
                                  <<CellText(rows[r].dataCells[1][c])>>], " | ") \o
                          <<" |">>]
                  ELSE <<>>
                grouped == IF Len(groupingsDown) > 0
                           THEN formatGroupings(groupingsDown, factMap, aggregateInfo, columnInfo,
                                                metadata, includeDetails, 0)
                           ELSE Ok(<<>>)
            IN IF grouped.threw THEN grouped
               ELSE Ok(Join(metaLines \o countLines \o totalLines \o detailLines \o
                            (IF Len(groupingsDown) > 0
                             THEN << <<>>, <<"Grouped Results:">> >> \o grouped.value
                             ELSE <<>>), "\n"))

----------------------------------------------------------------------------
(* Rendering of the other operations' results (the code after each await)  *)

\* list with queryFilter: result.records.map(...).join('\n\n')
RenderQuery(res) ==
  IF res.records = Undefined THEN Threw(TypeError)
  ELSE
    LET records == res.records[1]
        block(index) ==
          LET r == records[index + 1]
          IN Join(<< <<ToString(index + 1), ". ", Str(r.Name)>>,
                     <<"   ID: ", Str(r.Id)>>,
                     <<"   Developer Name: ", OrElse(r.DeveloperName, "N/A")>>,
                     <<"   Format: ", OrElse(r.Format, "N/A")>>,
                     <<"   Folder: ", OrElse(r.FolderName, "N/A")>> >> \o
                  (IF TruthyStr(r.Description)
                   THEN << <<"   Description: ", r.Description[1]>> >> ELSE <<>>) \o
                  (IF TruthyStr(r.LastRunDate)
                   THEN << <<"   Last Run: ", r.LastRunDate[1]>> >> ELSE <<>>), "\n")
    IN Ok(<<"Found ", ToString(Len(records)), " reports:\n\n">> \o
          Join([i \in 1..Len(records) |-> block(i - 1)], "\n\n"))

\* list without queryFilter: reports.map(...).join('\n\n')
RenderReports(reports) ==
  IF reports = Undefined THEN Threw(TypeError)
  ELSE
    LET rs == reports[1]
        block(index) ==
          LET r == rs[index + 1]
          IN Join(<< <<ToString(index + 1), ". ", Str(r.name)>>,
                     <<"   ID: ", Str(r.id)>> >> \o
                  (IF TruthyStr(r.url) THEN << <<"   URL: ", r.url[1]>> >> ELSE <<>>), "\n")
    IN Ok(<<"Recently viewed reports (", ToString(Len(rs)), "):\n\n">> \o
          Join([i \in 1..Len(rs) |-> block(i - 1)], "\n\n"))

GroupingLines(gs) ==
  [i \in 1..Len(gs) |->
     <<"  - ", Str(gs[i].name), " (sort: ", Str(gs[i].sortOrder), ", agg: ",
       OrElse(gs[i].dateGranularity, "none"), ")">>]

\* describe: the metadata sections, empty sections omitted
RenderDescribe(meta) ==
  IF meta.reportMetadata = Undefined THEN Threw(TypeError)
  ELSE
    LET rm == meta.reportMetadata[1]
        ext == meta.reportExtendedMetadata
        head == << <<"Report: ", Str(rm.name)>>,
                   <<"ID: ", Str(rm.id)>>,
                   <<"Format: ", Str(rm.reportFormat)>>,
                   <<"Report Type: ",
                     IF rm.reportType # Undefined THEN OrElse(rm.reportType[1].type, "N/A")
                     ELSE "N/A">>,
                   <<"Description: ", OrElse(rm.description, "N/A")>> >>
        detailInfo == IF ext # Undefined /\ ext[1].detailColumnInfo # Undefined
                      THEN ext[1].detailColumnInfo[1] ELSE <<>>
        columns ==
          IF NonEmpty(rm.detailColumns)
          THEN << <<>>, <<"Detail Columns:">> >> \o
               [i \in 1..Len(rm.detailColumns[1]) |->
                  LET col == rm.detailColumns[1][i]
                      info == Lookup(detailInfo, col)
                  IN IF info # Undefined
                     THEN <<"  - ", Str(info[1].label), " (", col, ") [", Str(info[1].dataType), "]">>
                     ELSE <<"  - ", col>>]
          ELSE <<>>
        down == IF NonEmpty(rm.groupingsDown)
                THEN << <<>>, <<"Row Groupings:">> >> \o GroupingLines(rm.groupingsDown[1])
                ELSE <<>>
        across == IF NonEmpty(rm.groupingsAcross)
                  THEN << <<>>, <<"Column Groupings:">> >> \o GroupingLines(rm.groupingsAcross[1])
                  ELSE <<>>
        filters == IF NonEmpty(rm.reportFilters)
                   THEN << <<>>, <<"Filters:">> >> \o
                        [i \in 1..Len(rm.reportFilters[1]) |->
                           LET f == rm.reportFilters[1][i]
                           IN <<"  - ", f.column, " ", f.operator, " ", f.value>>]
                   ELSE <<>>
        aggInfo == IF ext # Undefined THEN ext[1].aggregateColumnInfo ELSE Undefined
        aggregates == IF NonEmpty(aggInfo)
                      THEN << <<>>, <<"Aggregates:">> >> \o
                           [i \in 1..Len(aggInfo[1]) |->
                              <<"  - ", Str(aggInfo[1][i].label), " (", aggInfo[1][i].key, ") [",
                                Str(aggInfo[1][i].dataType), "]">>]
                      ELSE <<>>
        rtm == meta.reportTypeMetadata
        categories == IF rtm # Undefined /\ NonEmpty(rtm[1].categories)
                      THEN << <<>>, <<"Available Categories/Objects:">> >> \o
                           [i \in 1..Len(rtm[1].categories[1]) |->
                              <<"  - ", rtm[1].categories[1][i].label, " (",
                                rtm[1].categories[1][i].name, ")">>]
                      ELSE <<>>
    IN Ok(Join(head \o columns \o down \o across \o filters \o aggregates \o categories, "\n"))

\* executeAsync: the started instance
RenderInstance(instance) ==
  IF instance = Undefined THEN Threw(TypeError)
  ELSE Ok(<<"Report execution started asynchronously.\n\nInstance ID: ", Str(instance[1].id),
            "\nStatus: ", Str(instance[1].status),
            "\nRequest Date: ", OrElse(instance[1].requestDate, "N/A"),
            "\n\nUse operation \"getInstanceResults\" with this instanceId to retrieve results once complete.">>)

\* getInstances: the instance list, or the "none found" message
RenderInstances(instances) ==
  IF instances = Undefined \/ Len(instances[1]) = 0
  THEN Ok(<<"No async report instances found for this report.">>)
  ELSE
    LET is == instances[1]
        block(index) ==
          LET inst == is[index + 1]
          IN Join(<< <<ToString(index + 1), ". Instance ID: ", Str(inst.id)>>,
                     <<"   Status: ", Str(inst.status)>>,
                     <<"   Request Date: ", OrElse(inst.requestDate, "N/A")>>,
                     <<"   Completion Date: ", OrElse(inst.completionDate, "N/A")>> >>, "\n")
    IN Ok(<<"Found ", ToString(Len(is)), " report instance(s):\n\n">> \o
          Join([i \in 1..Len(is) |-> block(i - 1)], "\n\n"))

----------------------------------------------------------------------------
(* Request Dispatcher                                                      *)

Envelope(text, isError) == [content |-> <<[type |-> "text", text |-> text]>>, isError |-> isError]

\* the validation failure of lines 300-303, 389-392, 429-432, 467-470, 506-515
RequiredError(field, operation) ==
  Envelope(<<field, " is required for ", operation, " operation">>, TRUE)

\* the SOQL string of the list operation
soql(queryFilter, limit) ==
  <<"SELECT Id, Name, Description, Format, DeveloperName, FolderName, LastRunDate, CreatedDate, LastModifiedDate FROM Report",
    " WHERE ", queryFilter>> \o
  (IF TruthyNum(limit) THEN <<" LIMIT ", ToString(limit[1])>>
   ELSE <<" LIMIT ", ToString(DefaultLimit)>>)

\* MapFilters passing the caller's entries through as they are
MapFiltersAsGiven(filters) == filters

\* filters.map(f => ({column: f.column, operator: f.operator, value: f.value}))
MapFilters(filters) ==
  [i \in 1..Len(filters) |->
     [column |-> filters[i].column, operator |-> filters[i].operator, value |-> filters[i].value]]

\* the options object of execute
ExecuteOptions(includeDetails, filters) ==
  [details |-> IF TruthyBool(includeDetails) THEN Some(TRUE) ELSE Undefined,
   metadata |-> IF NonEmpty(filters)
                THEN Some([reportMetadata |-> [reportFilters |-> MapFilters(filters[1])]])
                ELSE Undefined]

\* the options object of executeAsync
ExecuteAsyncOptions(includeDetails, filters) ==
  [details |-> IF TruthyBool(includeDetails) THEN Some(TRUE) ELSE Undefined,
   metadata |-> IF NonEmpty(filters)
                THEN Some([reportMetadata |-> [reportFilters |-> MapFilters(filters[1])]])
                ELSE Undefined]

AccessHint == "\n\nEnsure the user has:\n1. \"Run Reports\" permission\n2. Access to the report's folder\n3. The report ID is correct"

NotFoundHint == "\n\nCheck that the report ID is valid and starts with \"00O\"."

\* errorMessage.includes(w)
Includes(errorMessage, w) == w \in Range(errorMessage)

\* error instanceof Error ? error.message : String(error); <<>> when the
\* message is no string or the value has no string form
ErrorMessageOf(error) == IF error.isError THEN error.message ELSE error.str

\* enhancedError with the two tests in the other order
enhancedErrorNotFoundFirst(errorMessage) ==
  IF Includes(errorMessage, "INVALID_ID_FIELD") \/ Includes(errorMessage, "NOT_FOUND")
  THEN <<"Report not found: ">> \o errorMessage \o <<NotFoundHint>>
  ELSE IF Includes(errorMessage, "INSUFFICIENT_ACCESS") \/ Includes(errorMessage, "INVALID_CROSS_REFERENCE")
  THEN <<"Access error: ">> \o errorMessage \o <<AccessHint>>
  ELSE errorMessage

enhancedError(errorMessage) ==
  IF Includes(errorMessage, "INSUFFICIENT_ACCESS") \/ Includes(errorMessage, "INVALID_CROSS_REFERENCE")
  THEN <<"Access error: ">> \o errorMessage \o <<AccessHint>>
  ELSE IF Includes(errorMessage, "INVALID_ID_FIELD") \/ Includes(errorMessage, "NOT_FOUND")
  THEN <<"Report not found: ">> \o errorMessage \o <<NotFoundHint>>
  ELSE errorMessage

\* the catch block: the envelope it returns, or the TypeError it raises itself
\* (String(error) of a value with no string form, .includes of a message that is no string)
Catch(operation, error) ==
  LET errorMessage == ErrorMessageOf(error)
  IN IF errorMessage = Undefined THEN Threw(TypeError)
     ELSE Ok(Envelope(<<"Error in report ", operation, ": ">> \o enhancedError(errorMessage[1]), TRUE))

Call(method, awaited, arg) == [method |-> method, awaited |-> awaited, arg |-> arg]

\* a return statement of the try block
Return(envelope) ==
  /\ pc' = "done"
  /\ result' = Some(envelope)
  /\ UNCHANGED <<raised, caught>>

\* control reaches the catch block with `error`: its return, or what it raises
Caught(error) ==
  LET c == Catch(args.operation, error)
  IN /\ caught' = Some(error)
     /\ IF c.threw
        THEN pc' = "raised" /\ raised' = Some(c.value) /\ result' = result
        ELSE pc' = "done" /\ result' = Some(c.value) /\ raised' = raised

\* await of a collaborator method: the invocation suspends
Await(newCalls) ==
  /\ calls' = newCalls
  /\ pc' = "await"
  /\ UNCHANGED <<result, raised, caught>>

\* conn.analytics.report(reportId), then `next` on the handle it returns
WithReport(next(_)) ==
  LET c == Append(calls, Call("analytics.report", FALSE, <<args.reportId[1]>>))
  IN IF conn.factory # Undefined
     THEN calls' = c /\ Caught(conn.factory[1])
     ELSE next(c)

\* List taking the SOQL branch also when a reportId is given
ListByReportId ==
  /\ pc = "start"
  /\ args.operation = "list"
  /\ IF TruthyStr(args.queryFilter) \/ TruthyStr(args.reportId)
     THEN Await(Append(calls, Call("query", TRUE, <<soql(Str(args.queryFilter), args.limit)>>)))
     ELSE Await(Append(calls, Call("analytics.reports", TRUE, <<>>)))
  /\ UNCHANGED <<args, conn, args0>>

List ==
  /\ pc = "start"
  /\ args.operation = "list"
  /\ IF TruthyStr(args.queryFilter)
     THEN Await(Append(calls, Call("query", TRUE, <<soql(args.queryFilter[1], args.limit)>>)))
     ELSE Await(Append(calls, Call("analytics.reports", TRUE, <<>>)))
  /\ UNCHANGED <<args, conn, args0>>

Describe ==
  /\ pc = "start"
  /\ args.operation = "describe"
  /\ IF ~TruthyStr(args.reportId)
     THEN calls' = calls /\ Return(RequiredError("reportId", "describe"))
     ELSE LET next(c) == Await(Append(c, Call("describe", TRUE, <<>>)))
          IN WithReport(next)
  /\ UNCHANGED <<args, conn, args0>>

Execute ==
  /\ pc = "start"
  /\ args.operation = "execute"
  /\ IF ~TruthyStr(args.reportId)
     THEN calls' = calls /\ Return(RequiredError("reportId", "execute"))
     ELSE LET next(c) == Await(Append(c, Call("execute", TRUE,
                                     <<ExecuteOptions(args.includeDetails, args.filters)>>)))
          IN WithReport(next)
  /\ UNCHANGED <<args, conn, args0>>

ExecuteAsync ==
  /\ pc = "start"
  /\ args.operation = "executeAsync"
  /\ IF ~TruthyStr(args.reportId)
     THEN calls' = calls /\ Return(RequiredError("reportId", "executeAsync"))
     ELSE LET next(c) == Await(Append(c, Call("executeAsync", TRUE,
                                     <<ExecuteAsyncOptions(args.includeDetails, args.filters)>>)))
          IN WithReport(next)
  /\ UNCHANGED <<args, conn, args0>>

GetInstances ==
  /\ pc = "start"
  /\ args.operation = "getInstances"
  /\ IF ~TruthyStr(args.reportId)
     THEN calls' = calls /\ Return(RequiredError("reportId", "getInstances"))
     ELSE LET next(c) == Await(Append(c, Call("instances", TRUE, <<>>)))
          IN WithReport(next)
  /\ UNCHANGED <<args, conn, args0>>

\* GetInstanceResults with the instanceId check made after the report handle is obtained
GetInstanceResultsLateCheck ==
  /\ pc = "start"
  /\ args.operation = "getInstanceResults"
  /\ IF ~TruthyStr(args.reportId)
     THEN calls' = calls /\ Return(RequiredError("reportId", "getInstanceResults"))
     ELSE IF ~TruthyStr(args.instanceId)
     THEN /\ calls' = Append(calls, Call("analytics.report", FALSE, <<args.reportId[1]>>))
          /\ Return(RequiredError("instanceId", "getInstanceResults"))
     ELSE LET next(c) == Await(c \o <<Call("instance", FALSE, <<args.instanceId[1]>>),
                                      Call("retrieve", TRUE, <<>>)>>)
          IN WithReport(next)
  /\ UNCHANGED <<args, conn, args0>>

GetInstanceResults ==
  /\ pc = "start"
  /\ args.operation = "getInstanceResults"
  /\ IF ~TruthyStr(args.reportId)
     THEN calls' = calls /\ Return(RequiredError("reportId", "getInstanceResults"))
     ELSE IF ~TruthyStr(args.instanceId)
     THEN calls' = calls /\ Return(RequiredError("instanceId", "getInstanceResults"))
     ELSE LET next(c) == Await(c \o <<Call("instance", FALSE, <<args.instanceId[1]>>),
                                      Call("retrieve", TRUE, <<>>)>>)
          IN WithReport(next)
  /\ UNCHANGED <<args, conn, args0>>

\* the text of the default branch: the operation given, then the six valid ones
UnknownOperationText(operation) ==
  <<"Unknown report operation: ", operation, ". Valid operations: ",
    "list", ", ", "describe", ", ", "execute", ", ", "executeAsync", ", ",
    "getInstances", ", ", "getInstanceResults">>

\* the default branch returning its text as a success
UnknownOperationAsSuccess ==
  /\ pc = "start"
  /\ args.operation \notin Operations
  /\ calls' = calls
  /\ Return(Envelope(UnknownOperationText(args.operation), FALSE))
  /\ UNCHANGED <<args, conn, args0>>

\* the default branch of the switch
UnknownOperation ==
  /\ pc = "start"
  /\ args.operation \notin Operations
  /\ calls' = calls
  /\ Return(Envelope(UnknownOperationText(args.operation), TRUE))
  /\ UNCHANGED <<args, conn, args0>>

\* the code after the await, by the method awaited
Render(method, value) ==
  CASE method = "query" -> RenderQuery(value)
    [] method = "analytics.reports" -> RenderReports(value)
    [] method = "describe" -> RenderDescribe(value)
    [] method = "execute" -> formatReportResults(value, TruthyBool(args.includeDetails))
    [] method = "executeAsync" -> RenderInstance(value)
    [] method = "instances" -> RenderInstances(value)
    [] method = "retrieve" -> formatReportResults(value, TruthyBool(args.includeDetails))

\* the awaited call resolves: render its value and return, or catch what rendering throws
Resolve ==
  /\ pc = "await"
  /\ conn.settle = "resolve"
  /\ LET r == Render(calls[Len(calls)].method, conn.value[1])
     IN IF r.threw THEN Caught(r.value) ELSE Return(Envelope(r.value, FALSE))
  /\ UNCHANGED <<args, conn, calls, args0>>

\* Reject with one retry of the failed call before the catch block
RejectRetry ==
  /\ pc = "await"
  /\ conn.settle = "reject"
  /\ IF Len(SelectSeq(calls, LAMBDA c : c.awaited)) < 2
     THEN /\ calls' = Append(calls, calls[Len(calls)])
          /\ UNCHANGED <<pc, result, raised, caught>>
     ELSE calls' = calls /\ Caught(conn.error[1])
  /\ UNCHANGED <<args, conn, args0>>

\* the awaited call rejects: the catch block
Reject ==
  /\ pc = "await"
  /\ conn.settle = "reject"
  /\ Caught(conn.error[1])
  /\ UNCHANGED <<args, conn, calls, args0>>

Next ==
  \/ List
  \/ Describe
  \/ Execute
  \/ ExecuteAsync
  \/ GetInstances
  \/ GetInstanceResults
  \/ UnknownOperation
  \/ Resolve
  \/ Reject

----------------------------------------------------------------------------
(* Inputs: requests                                                        *)

FilterPool ==
  { [column |-> "AMOUNT", operator |-> "greaterThan", value |-> "10000"],
    [column |-> "STAGE", operator |-> "equals", value |-> "Won", isRunPageEditable |-> TRUE] }

Requests(ops, reportIds, instanceIds, details, filterSeqs, queryFilters, limits) ==
  [operation : ops, reportId : reportIds, instanceId : instanceIds, includeDetails : details,
   filters : filterSeqs, queryFilter : queryFilters, limit : limits]

AllOperations == Operations \cup {"delete"}

AllRequests ==
  Requests(AllOperations,
           {Undefined, Some(""), Some("00O5e000001")},
           {Undefined, Some("0LG5e000002")},
           {Undefined, Some(FALSE), Some(TRUE)},
           {Undefined} \cup {Some(fs) : fs \in SeqsUpTo(FilterPool, MaxFilters)},
           {Undefined, Some(""), Some("Format = 'MATRIX'")},
           {Undefined, Some(0), Some(50)})

\* requests that pass validation, one or two per operation
PlainRequests ==
  Requests(AllOperations,
           {Undefined, Some("00O5e000001")},
           {Some("0LG5e000002")},
           {Undefined, Some(TRUE)},
           {Undefined},
           {Undefined, Some("Format = 'MATRIX'")},
           {Undefined})

----------------------------------------------------------------------------
(* Inputs: the values the collaborator throws                              *)

Words == {"INSUFFICIENT_ACCESS", "INVALID_CROSS_REFERENCE", "INVALID_ID_FIELD", "NOT_FOUND", "socket hang up"}

Messages == SeqsUpTo(Words, MaxMsgLen)

\* an Error whose message is the string msg
ErrorOf(msg) == [isError |-> TRUE, message |-> Some(msg), str |-> Some(<<"Error: ">> \o msg)]
\* a value that is no Error and whose String() is msg: a string, a plain object, undefined
StringFault(msg) == [isError |-> FALSE, message |-> Undefined, str |-> Some(msg)]
\* an Error object whose message property is no string
ErrorNoMessage == [isError |-> TRUE, message |-> Undefined, str |-> Some(<<"Error">>)]
\* a value String() cannot convert, such as Object.create(null)
NoStringForm == [isError |-> FALSE, message |-> Undefined, str |-> Undefined]

BasicFaults ==
  {ErrorOf(<<"socket hang up">>), StringFault(<<"[object Object]">>), ErrorNoMessage, NoStringForm}

AllFaults ==
  {ErrorOf(m) : m \in Messages} \cup {StringFault(m) : m \in Messages} \cup {ErrorNoMessage, NoStringForm}

----------------------------------------------------------------------------
(* Inputs: the values the collaborator resolves with                       *)

QueryValues ==
  { [records |-> Undefined],
    [records |-> Some(<<>>)],
    [records |-> Some(<<
       [Name |-> Some("Pipeline"), Id |-> Some("00O5e000001"), DeveloperName |-> Some("Pipeline_1"),
        Format |-> Some("MATRIX"), FolderName |-> Some("Sales"), Description |-> Some("Open deals"),
        LastRunDate |-> Some("2024-01-01")],
       [Name |-> Some("Leads"), Id |-> Some("00O5e000003"), DeveloperName |-> Undefined,
        Format |-> Undefined, FolderName |-> Some(""), Description |-> Undefined,
        LastRunDate |-> Undefined] >>)] }

ReportsValues ==
  { Undefined,
    Some(<<>>),
    Some(<< [name |-> Some("Pipeline"), id |-> Some("00O5e000001"), url |-> Some("/reports/00O5e000001")],
            [name |-> Some("Leads"), id |-> Some("00O5e000003"), url |-> Undefined] >>) }

FullExtendedMetadata ==
  [detailColumnInfo |-> Some([c \in {"AMOUNT", "STAGE"} |->
                               IF c = "AMOUNT" THEN [label |-> Some("Amount"), dataType |-> Some("currency")]
                               ELSE [label |-> Undefined, dataType |-> Undefined]]),
   aggregateColumnInfo |-> Some(<< [key |-> "s!AMOUNT", label |-> Some("Sum of Amount"), dataType |-> Some("currency")],
                                   [key |-> "RowCount", label |-> Undefined, dataType |-> Undefined] >>)]

EmptyExtendedMetadata == [detailColumnInfo |-> Undefined, aggregateColumnInfo |-> Undefined]

DescribeValues ==
  { [reportMetadata |-> Undefined, reportExtendedMetadata |-> Undefined, reportTypeMetadata |-> Undefined],
    [reportMetadata |-> Some([name |-> Some("Leads"), id |-> Some("00O5e000003"), reportFormat |-> Some("TABULAR"),
                              reportType |-> Undefined, description |-> Undefined, detailColumns |-> Undefined,
                              groupingsDown |-> Undefined, groupingsAcross |-> Some(<<>>),
                              reportFilters |-> Undefined]),
     reportExtendedMetadata |-> Some(EmptyExtendedMetadata),
     reportTypeMetadata |-> Some([categories |-> Undefined])],
    [reportMetadata |-> Some([name |-> Some("Pipeline"), id |-> Some("00O5e000001"), reportFormat |-> Some("MATRIX"),
                              reportType |-> Some([type |-> Some("Opportunity")]),
                              description |-> Some("Open deals"),
                              detailColumns |-> Some(<<"AMOUNT", "STAGE", "OWNER">>),
                              groupingsDown |-> Some(<<[name |-> Some("REGION"), sortOrder |-> Some("Asc"),
                                                        dateGranularity |-> Some("None")]>>),
                              groupingsAcross |-> Some(<<[name |-> Some("CLOSE_DATE"), sortOrder |-> Some("Desc"),
                                                          dateGranularity |-> Undefined]>>),
                              reportFilters |-> Some(<<[column |-> "AMOUNT", operator |-> "greaterThan",
                                                        value |-> "10000"]>>)]),
     reportExtendedMetadata |-> Some(FullExtendedMetadata),
     reportTypeMetadata |-> Some([categories |-> Some(<<[label |-> "Opportunities", name |-> "Opportunity"]>>)])] }

InstanceValues ==
  { Undefined,
    Some([id |-> Some("0LG5e000002"), status |-> Some("New"), requestDate |-> Undefined]),
    Some([id |-> Some("0LG5e000002"), status |-> Some("Running"), requestDate |-> Some("2024-01-01")]) }

InstancesValues ==
  { Undefined,
    Some(<<>>),
    Some(<< [id |-> Some("0LG5e000002"), status |-> Some("Success"), requestDate |-> Some("2024-01-01"),
             completionDate |-> Some("2024-01-02")],
            [id |-> Some("0LG5e000004"), status |-> Some("Running"), requestDate |-> Undefined,
             completionDate |-> Undefined] >>) }

----------------------------------------------------------------------------
(* Inputs: report result trees                                             *)

\* an aggregate or a cell: with a label and a value, with a value only, with neither
Kinds == <<"both", "value", "none">>

EntryOf(kind, tag) ==
  [label |-> IF kind = "both" THEN Some("label " \o tag) ELSE Undefined,
   value |-> IF kind = "none" THEN Undefined ELSE Some("value " \o tag)]

\* n entries whose kinds cycle through Kinds
Entries(n, tag) ==
  [i \in 1..n |-> EntryOf(Kinds[((i - 1) % 3) + 1], tag \o "." \o ToString(i))]

\* a row of three cells, one of each kind
RowOf(tag) == [dataCells |-> Some(Entries(3, tag))]

\* the contents of a bucket: its aggregates and rows, each possibly absent
BucketPatterns ==
  [aggs : {-1} \cup 0..MaxAggs, rows : {-2, -1} \cup 0..MaxRows]

\* aggs = -1: no aggregates; rows = -1: no rows; rows = -2: one row without dataCells
BucketOf(pattern, key) ==
  [aggregates |-> IF pattern.aggs < 0 THEN Undefined ELSE Some(Entries(pattern.aggs, "agg " \o key)),
   rows |-> IF pattern.rows = -1 THEN Undefined
            ELSE IF pattern.rows = -2 THEN Some(<<[dataCells |-> Undefined]>>)
            ELSE Some([r \in 1..pattern.rows |-> RowOf("row " \o key \o "." \o ToString(r))])]

\* the ordered forests of n nodes, as shapes
RECURSIVE Forests(_)
Forests(n) ==
  IF n = 0 THEN {<<>>}
  ELSE UNION { { <<c>> \o r : c \in Forests(k - 1), r \in Forests(n - k) } : k \in 1..n }

\* the grouping nodes of a shape, keyed by their position as the service keys them
\* ("0", "0_1", ...); a second sibling has no label, and no groupings when it is a leaf
RECURSIVE Groupings(_, _)
Groupings(shape, prefix) ==
  [i \in 1..Len(shape) |->
     LET k == IF prefix = "" THEN ToString(i - 1) ELSE prefix \o "_" \o ToString(i - 1)
     IN [key |-> Some(k),
         label |-> IF i = 2 THEN Undefined ELSE Some("L" \o k),
         value |-> Some("V" \o k),
         groupings |-> IF i = 2 /\ shape[i] = <<>> THEN Undefined
                       ELSE Some(Groupings(shape[i], k))]]

\* the nodes of a grouping forest in no particular order, each with its depth
RECURSIVE Nodes(_, _)
Nodes(groupings, depth) ==
  UNION { {[node |-> groupings[i], depth |-> depth]} \cup
          (IF NonEmpty(groupings[i].groupings)
           THEN Nodes(groupings[i].groupings[1], depth + 1) ELSE {})
          : i \in 1..Len(groupings) }

\* a fact map: the T!T bucket by `total`, the bucket of a node at even depth by
\* `even` and at odd depth by `odd`; <<>> for no bucket
FactMapOf(groupings, total, even, odd) ==
  LET ns == Nodes(groupings, 0)
      patternOf(n) == IF n.depth % 2 = 0 THEN even ELSE odd
      keys == (IF total = Undefined THEN {} ELSE {"T!T"}) \cup
              {n.node.key[1] \o "!T" : n \in {m \in ns : patternOf(m) # Undefined}}
      depthOf(k) == (CHOOSE n \in ns : n.node.key[1] \o "!T" = k).depth
  IN [k \in keys |->
        IF k = "T!T" THEN BucketOf(total[1], "T")
        ELSE BucketOf((IF depthOf(k) % 2 = 0 THEN even ELSE odd)[1], k)]

FullMetadata ==
  [name |-> Some("Pipeline"), reportFormat |-> Some("SUMMARY"),
   reportFilters |-> Some(<<[column |-> "AMOUNT", operator |-> "greaterThan", value |-> "10000"]>>),
   detailColumns |-> Some(<<"AMOUNT", "STAGE">>)]

PlainMetadata ==
  [name |-> Some("Leads"), reportFormat |-> Undefined, reportFilters |-> Undefined,
   detailColumns |-> Undefined]

\* the metadata of a result: reportMetadata and reportExtendedMetadata
Metas ==
  { <<Undefined, Undefined>>,
    <<Some(PlainMetadata), Some(EmptyExtendedMetadata)>>,
    <<Some(FullMetadata), Some(FullExtendedMetadata)>>,
    <<Some(FullMetadata), Undefined>> }

Tree(meta, factMap, down, across) ==
  [reportMetadata |-> meta[1], reportExtendedMetadata |-> meta[2], factMap |-> factMap,
   groupingsDown |-> down, groupingsAcross |-> across]

Down(shape) == Some([groupings |-> Some(Groupings(shape, ""))])

FullPattern == [aggs |-> 2, rows |-> 1]

\* a handful of results: no fact map, a flat report, a row without cells, a grouped report
BasicTrees ==
  LET g == Groupings(<< <<<<>>>> >>, "")
      full == <<Some(FullMetadata), Some(FullExtendedMetadata)>>
  IN { Tree(full, Undefined, Undefined, Undefined),
       Tree(full, Some(FactMapOf(<<>>, Some(FullPattern), Undefined, Undefined)), Undefined, Undefined),
       Tree(full, Some(FactMapOf(<<>>, Some([aggs |-> 1, rows |-> -2]), Undefined, Undefined)),
            Undefined, Undefined),
       Tree(<<Undefined, Undefined>>,
            Some(FactMapOf(g, Undefined, Some(FullPattern), Some(FullPattern))),
            Some([groupings |-> Some(g)]), Some([groupings |-> Undefined])) }

\* every grouping forest of at most MaxNodes nodes, the buckets by depth
ShapedTrees ==
  LET patterns == {Undefined, Some([aggs |-> 2, rows |-> -1]), Some([aggs |-> -1, rows |-> 1]),
                   Some(FullPattern)}
  IN { Tree(<<Some(FullMetadata), Some(FullExtendedMetadata)>>,
            Some(FactMapOf(Groupings(shape, ""), Undefined, even, odd)),
            Down(shape), Undefined)
       : shape \in UNION {Forests(n) : n \in 1..MaxNodes}, even \in patterns, odd \in patterns }

\* every bucket pattern: in the T!T bucket of a flat report, and in all the
\* buckets of a two-level grouping
FilledTrees ==
  LET g == Groupings(<< <<<<>>>> >>, "")
      patterns == {Undefined} \cup {Some(p) : p \in BucketPatterns}
  IN { Tree(meta, Some(FactMapOf(<<>>, total, Undefined, Undefined)), Undefined,
            Some([groupings |-> Some(g)]))
       : meta \in Metas, total \in patterns } \cup
     { Tree(meta, Some(FactMapOf(g, p, p, p)), Some([groupings |-> Some(g)]), Undefined)
       : meta \in Metas, p \in patterns }

AllTrees == BasicTrees \cup ShapedTrees \cup FilledTrees

----------------------------------------------------------------------------
(* Inputs: connections                                                     *)

\* the collaborator method the request's operation awaits
MethodOf(request) ==
  CASE request.operation = "list" ->
         IF TruthyStr(request.queryFilter) THEN "query" ELSE "analytics.reports"
    [] request.operation = "describe" -> "describe"
    [] request.operation = "execute" -> "execute"
    [] request.operation = "executeAsync" -> "executeAsync"
    [] request.operation = "getInstances" -> "instances"
    [] request.operation = "getInstanceResults" -> "retrieve"
    [] OTHER -> "none"

ValuesOf(method, trees) ==
  CASE method = "query" -> QueryValues
    [] method = "analytics.reports" -> ReportsValues
    [] method = "describe" -> DescribeValues
    [] method = "execute" -> trees
    [] method = "executeAsync" -> InstanceValues
    [] method = "instances" -> InstancesValues
    [] method = "retrieve" -> trees
    [] OTHER -> {}

\* a connection: the Error analytics.report(id) throws, if any (factory), and how
\* the awaited call settles: with a value, or with an error
Connections(request, faults, trees) ==
  {[factory |-> Undefined, settle |-> "resolve", value |-> Some(v), error |-> Undefined]
     : v \in ValuesOf(MethodOf(request), trees)} \cup
  {[factory |-> Undefined, settle |-> "reject", value |-> Undefined, error |-> Some(e)]
     : e \in faults} \cup
  {[factory |-> Some(e), settle |-> "reject", value |-> Undefined, error |-> Some(e)]
     : e \in IF request.operation = "list" THEN {}
             ELSE {f \in faults : f.isError /\ f.message # Undefined}}

----------------------------------------------------------------------------
(* Specifications                                                          *)

Start(requests, faults, trees) ==
  /\ args \in requests
  /\ conn \in Connections(args, faults, trees)
  /\ pc = "start"
  /\ calls = <<>>
  /\ result = Undefined
  /\ raised = Undefined
  /\ caught = Undefined
  /\ args0 = args

\* every request, against a connection with a few outcomes
Init == Start(AllRequests, BasicFaults, BasicTrees)

Spec == Init /\ [][Next]_vars

\* valid requests, against every fault
InitFaults == Start(PlainRequests, AllFaults, BasicTrees)

SpecFaults == InitFaults /\ [][Next]_vars

\* valid requests, against every result tree
InitTrees == Start(PlainRequests, {ErrorOf(<<"socket hang up">>)}, AllTrees)

SpecTrees == InitTrees /\ [][Next]_vars

----------------------------------------------------------------------------
(* Properties                                                              *)

Terminal == pc \in {"done", "raised"}

\* the text of the envelope returned
Text == result[1].content[1].text

\* the awaited collaborator calls issued so far
AwaitedCalls == SelectSeq(calls, LAMBDA c : c.awaited)

\* the request fails validation: no reportId where one is required, or no
\* instanceId for getInstanceResults
MissingReportId == args.operation \in Operations \ {"list"} /\ ~TruthyStr(args.reportId)

MissingInstanceId ==
  args.operation = "getInstanceResults" /\ TruthyStr(args.reportId) /\ ~TruthyStr(args.instanceId)

\* C1: handleManageReports never raises to its caller: no invocation ends by
\* rejecting, and whenever the collaborator call or the rendering threw, the
\* envelope returned has isError = true.
C1_NeverRaises ==
  /\ pc # "raised"
  /\ (pc = "done" /\ caught # Undefined => result[1].isError)

\* C2: a request without a required field (reportId for every operation but list,
\* instanceId for getInstanceResults with a reportId) calls no collaborator method
\* at any point, and returns isError = true with a text naming the missing field
\* and the operation.
C2_ValidationBeforeCalls ==
  MissingReportId \/ MissingInstanceId =>
    /\ calls = <<>>
    /\ pc \in {"start", "done"}
    /\ pc = "done" =>
         /\ result[1].isError
         /\ (IF MissingReportId THEN "reportId" ELSE "instanceId") \in Range(Text)
         /\ args.operation \in Range(Text)

C2_Witness ==
  /\ pc = "done"
  /\ MissingInstanceId
  /\ result[1].isError
  /\ "instanceId" \in Range(Text)
  /\ calls = <<>>

\* C3 as stated: every invocation with a recognized operation issues exactly one
\* awaited collaborator call.
C3_ExactlyOneCall ==
  Terminal /\ args.operation \in Operations => Len(AwaitedCalls) = 1

\* C3 as amended: an invocation issues at most one awaited collaborator call, and
\* never a second one after the first fails; a recognized operation issues exactly
\* one when validation passes and analytics.report(id) returns the handle, and none
\* when validation fails; a call that fails ends in the catch block.
C3_AtMostOneCall ==
  /\ Len(AwaitedCalls) <= 1
  /\ Terminal /\ args.operation \in Operations =>
       IF MissingReportId \/ MissingInstanceId THEN Len(AwaitedCalls) = 0
       ELSE IF args.operation # "list" /\ conn.factory # Undefined THEN Len(AwaitedCalls) = 0
       ELSE Len(AwaitedCalls) = 1
  /\ Terminal /\ Len(AwaitedCalls) = 1 /\ conn.settle = "reject" => caught = conn.error

C3_Witness ==
  /\ pc = "done"
  /\ conn.settle = "reject"
  /\ Len(AwaitedCalls) = 1
  /\ caught = conn.error
  /\ result[1].isError

\* sub occurs in s as a run of consecutive pieces
OccursIn(sub, s) ==
  \E k \in 0..(Len(s) - Len(sub)) : SubSeq(s, k + 1, k + Len(sub)) = sub

\* C4: whatever the operation, a caught fault whose message contains
\* INSUFFICIENT_ACCESS or INVALID_CROSS_REFERENCE yields the message plus the
\* access hint and not the id hint; else one containing INVALID_ID_FIELD or
\* NOT_FOUND yields the message plus the id hint; else the message unchanged; the
\* text always starts with the operation name and isError = true.
C4_ErrorTranslation ==
  pc = "done" /\ caught # Undefined =>
    LET m == IF caught[1].isError THEN caught[1].message ELSE caught[1].str
        msg == m[1]
        access == \E i \in 1..Len(msg) : msg[i] \in {"INSUFFICIENT_ACCESS", "INVALID_CROSS_REFERENCE"}
        notFound == \E i \in 1..Len(msg) : msg[i] \in {"INVALID_ID_FIELD", "NOT_FOUND"}
        body == SubSeq(Text, 4, Len(Text))
    IN /\ m # Undefined
       /\ result[1].isError
       /\ Len(Text) >= 3
       /\ SubSeq(Text, 1, 3) = <<"Error in report ", args.operation, ": ">>
       /\ IF access
          THEN OccursIn(msg, body) /\ AccessHint \in Range(body) /\ NotFoundHint \notin Range(body)
          ELSE IF notFound
          THEN OccursIn(msg, body) /\ NotFoundHint \in Range(body) /\ AccessHint \notin Range(body)
          ELSE body = msg

C4_Witness ==
  /\ pc = "done"
  /\ caught # Undefined
  /\ caught[1].message = Some(<<"NOT_FOUND", "INSUFFICIENT_ACCESS">>)
  /\ AccessHint \in Range(Text)
  /\ NotFoundHint \notin Range(Text)

\* C5: for list with a queryFilter the SOQL passed to query contains
\* WHERE <queryFilter> and ends with LIMIT L for every limit L supplied, 0
\* included, and with LIMIT 200 only when no limit is supplied.
C5_LimitClause ==
  args.operation = "list" /\ TruthyStr(args.queryFilter) /\ calls # <<>> =>
    LET q == calls[1].arg[1]
        n == Len(q)
    IN /\ calls[1].method = "query"
       /\ \E i \in 1..(n - 1) : q[i] = " WHERE " /\ q[i + 1] = args.queryFilter[1]
       /\ n >= 2
       /\ q[n - 1] = " LIMIT "
       /\ q[n] = IF args.limit # Undefined THEN ToString(args.limit[1]) ELSE "200"

\* C6: for list, the call issued is decided by queryFilter alone: without one,
\* only analytics.reports() is called, with one, only query, with the SOQL built
\* from queryFilter and limit; reportId, instanceId, filters and includeDetails
\* have no effect on it.
C6_ListCallByQueryFilter ==
  args.operation = "list" =>
    IF pc = "start" THEN calls = <<>>
    ELSE IF TruthyStr(args.queryFilter)
    THEN calls = <<Call("query", TRUE, <<soql(args.queryFilter[1], args.limit)>>)>>
    ELSE calls = <<Call("analytics.reports", TRUE, <<>>)>>

C6_Witness ==
  /\ pc = "done"
  /\ args.operation = "list"
  /\ args.queryFilter = Undefined
  /\ TruthyStr(args.reportId)
  /\ NonEmpty(args.filters)
  /\ calls = <<Call("analytics.reports", TRUE, <<>>)>>

\* C7: for execute and executeAsync the options passed carry, for a non-empty
\* filters sequence, metadata.reportMetadata.reportFilters with exactly the
\* supplied entries (same length and order, only column, operator, value) and no
\* other key in reportMetadata; no metadata for absent or empty filters; details
\* true exactly when includeDetails is true; and the request is left unchanged.
C7_FilterOverride ==
  args.operation \in {"execute", "executeAsync"} =>
    /\ args = args0
    /\ AwaitedCalls # <<>> =>
         LET call == AwaitedCalls[1]
             options == call.arg[1]
             fs == args0.filters
         IN /\ call.method = args.operation
            /\ IF NonEmpty(fs)
               THEN /\ options.metadata # Undefined
                    /\ DOMAIN options.metadata[1] = {"reportMetadata"}
                    /\ LET rm == options.metadata[1].reportMetadata
                       IN /\ DOMAIN rm = {"reportFilters"}
                          /\ Len(rm.reportFilters) = Len(fs[1])
                          /\ \A i \in 1..Len(fs[1]) :
                               /\ DOMAIN rm.reportFilters[i] = {"column", "operator", "value"}
                               /\ rm.reportFilters[i].column = fs[1][i].column
                               /\ rm.reportFilters[i].operator = fs[1][i].operator
                               /\ rm.reportFilters[i].value = fs[1][i].value
               ELSE options.metadata = Undefined
            /\ options.details = IF args0.includeDetails = Some(TRUE) THEN Some(TRUE) ELSE Undefined

C7_Witness ==
  /\ pc = "done"
  /\ args.operation = "executeAsync"
  /\ args.includeDetails = Some(TRUE)
  /\ NonEmpty(args.filters)
  /\ Len(args.filters[1]) = 2
  /\ "isRunPageEditable" \in DOMAIN args.filters[1][1]
  /\ AwaitedCalls # <<>>
  /\ AwaitedCalls[1].arg[1].metadata # Undefined
  /\ AwaitedCalls[1].arg[1].details = Some(TRUE)

----------------------------------------------------------------------------
(* Properties of the formatted text                                        *)

\* the lines of a text: its pieces between the "\n" pieces (by halves)
RECURSIVE Split(_)
Split(text) ==
  IF Len(text) = 0 THEN << <<>> >>
  ELSE IF Len(text) = 1 THEN (IF text[1] = "\n" THEN << <<>>, <<>> >> ELSE <<text>>)
  ELSE LET half == Len(text) \div 2
           a == Split(SubSeq(text, 1, half))
           b == Split(SubSeq(text, half + 1, Len(text)))
       IN SubSeq(a, 1, Len(a) - 1) \o <<a[Len(a)] \o b[1]>> \o Tail(b)

\* the number of leading "  " pieces of a line
RECURSIVE Lead(_)
Lead(line) == IF line # <<>> /\ Head(line) = "  " THEN 1 + Lead(Tail(line)) ELSE 0

\* execute or getInstanceResults has returned the formatter's text
Formatted ==
  /\ pc = "done"
  /\ args.operation \in {"execute", "getInstanceResults"}
  /\ conn.settle = "resolve"
  /\ ~result[1].isError

TheTree == conn.value[1]

Details == TruthyBool(args.includeDetails)

\* the bucket of a fact-map key in the tree, <<>> if none
BucketAt(tree, key) ==
  IF tree.factMap = Undefined \/ key \notin DOMAIN tree.factMap[1] THEN Undefined
  ELSE Some(tree.factMap[1][key])

AggregatesAt(tree, key) ==
  LET b == BucketAt(tree, key)
  IN IF b = Undefined \/ b[1].aggregates = Undefined THEN <<>> ELSE b[1].aggregates[1]

RowsAt(tree, key) ==
  LET b == BucketAt(tree, key)
  IN IF b = Undefined \/ b[1].rows = Undefined THEN <<>> ELSE b[1].rows[1]

RootsOf(tree) ==
  IF tree.groupingsDown = Undefined \/ tree.groupingsDown[1].groupings = Undefined THEN <<>>
  ELSE tree.groupingsDown[1].groupings[1]

ChildrenOf(node) == IF node.groupings = Undefined THEN <<>> ELSE node.groupings[1]

\* the label, else the value, else the default d
Fallback(entry, d) ==
  IF entry.label # Undefined THEN entry.label[1]
  ELSE IF entry.value # Undefined THEN entry.value[1]
  ELSE d

\* line is the header of the grouping node
IsHeaderOf(line, node) ==
  /\ Len(line) >= 4
  /\ line[Len(line)] = "):"
  /\ line[Len(line) - 1] = node.value[1]
  /\ line[Len(line) - 2] = " ("

\* every rendered aggregate and cell is its label, else its value, else the
\* default: aggDefault for aggregates, cellDefault for cells
FallbackChain(aggDefault, cellDefault) ==
  Formatted /\ TheTree.factMap # Undefined =>
    LET lines == Split(Text)
        tree == TheTree
        totals == AggregatesAt(tree, "T!T")
        rows == RowsAt(tree, "T!T")
        hasTable == Details /\ BucketAt(tree, "T!T") # Undefined
                    /\ BucketAt(tree, "T!T")[1].rows # Undefined
        headerRows == IF tree.reportMetadata # Undefined
                         /\ NonEmpty(tree.reportMetadata[1].detailColumns) THEN 2 ELSE 0
    IN /\ Len(totals) > 0 =>
            \E j \in 1..Len(lines) :
              /\ lines[j] = <<"Grand Totals:">>
              /\ j + Len(totals) <= Len(lines)
              /\ \A i \in 1..Len(totals) :
                   lines[j + i][Len(lines[j + i])] = Fallback(totals[i], aggDefault)
       /\ hasTable =>
            \E j \in 1..Len(lines) :
              /\ Len(lines[j]) = 3 /\ lines[j][1] = "Detail Rows ("
              /\ j + headerRows + Len(rows) <= Len(lines)
              /\ \A r \in 1..Len(rows) : \A c \in 1..Len(rows[r].dataCells[1]) :
                   lines[j + headerRows + r][2 * c] = Fallback(rows[r].dataCells[1][c], cellDefault)
       /\ \A n \in Nodes(RootsOf(tree), 0) :
            LET key == n.node.key[1] \o "!T"
                aggs == AggregatesAt(tree, key)
                grows == IF Details THEN RowsAt(tree, key) ELSE <<>>
            IN \E h \in 1..Len(lines) :
                 /\ IsHeaderOf(lines[h], n.node)
                 /\ h + Len(aggs) + (IF Len(grows) > 0 THEN 1 + Len(grows) ELSE 0) <= Len(lines)
                 /\ \A i \in 1..Len(aggs) :
                      lines[h + i][Len(lines[h + i])] = Fallback(aggs[i], aggDefault)
                 /\ \A r \in 1..Len(grows) : \A c \in 1..Len(grows[r].dataCells[1]) :
                      lines[h + Len(aggs) + 1 + r][n.depth + 4 * c + 2]
                        = Fallback(grows[r].dataCells[1][c], cellDefault)

C9_FormatterNeverFaults ==
  /\ Terminal
  /\ args.operation \in {"execute", "getInstanceResults"}
  /\ AwaitedCalls # <<>>
  /\ conn.settle = "resolve"
  => /\ pc = "done"
     /\ ~result[1].isError
     /\ caught = Undefined
     /\ TheTree.factMap = Undefined =>
          LET lines == Split(Text) IN lines[Len(lines)] = <<"No data returned.">>

\* the number of lines a grouping node takes: its header, its subtotal lines,
\* its "Rows (n):" line and row lines, and its children
OwnLines(tree, node) ==
  LET key == node.key[1] \o "!T"
      rows == IF Details THEN RowsAt(tree, key) ELSE <<>>
  IN 1 + Len(AggregatesAt(tree, key)) + (IF Len(rows) > 0 THEN 1 + Len(rows) ELSE 0)

RECURSIVE BlockLines(_, _)
RECURSIVE ForestLines(_, _)
BlockLines(tree, node) == OwnLines(tree, node) + ForestLines(tree, ChildrenOf(node))
ForestLines(tree, groupings) ==
  IF groupings = <<>> THEN 0
  ELSE BlockLines(tree, Head(groupings)) + ForestLines(tree, Tail(groupings))

\* the groupings are laid out from line `start` on: each node's header at depth
\* + 1 indents, directly followed by its subtotal lines, its rows, then its
\* children one level deeper, then its next sibling
RECURSIVE LaidOut(_, _, _, _, _)
LaidOut(lines, tree, groupings, start, depth) ==
  \/ groupings = <<>>
  \/ /\ groupings # <<>>
     /\ LET node == Head(groupings)
            key == node.key[1] \o "!T"
            a == Len(AggregatesAt(tree, key))
            own == OwnLines(tree, node)
        IN /\ start + own - 1 <= Len(lines)
           /\ IsHeaderOf(lines[start], node)
           /\ Lead(lines[start]) = depth + 1
           /\ Len(lines[start]) = depth + 5
           /\ \A i \in 1..a :
                /\ Lead(lines[start + i]) = depth + 2
                /\ lines[start + i][Len(lines[start + i])] = Fallback(AggregatesAt(tree, key)[i], "N/A")
           /\ own > 1 + a =>
                /\ Lead(lines[start + a + 1]) = depth + 2
                /\ lines[start + a + 1][depth + 3] = "Rows ("
                /\ lines[start + a + 1][depth + 4] = ToString(own - a - 2)
                /\ \A r \in 1..(own - a - 2) : Lead(lines[start + a + 1 + r]) = depth + 3
           /\ LaidOut(lines, tree, ChildrenOf(node), start + own, depth + 1)
           /\ LaidOut(lines, tree, Tail(groupings), start + BlockLines(tree, node), depth)

\* C10: the grouped section is the pre-order traversal of the grouping tree: a
\* node at depth d has its header indented by d + 1 indents of two spaces, its
\* subtotal lines directly after the header, then its "Rows (n):" line and rows,
\* then its children, siblings in input order, every node exactly once and no
\* other line.
C10_PreOrderLayout ==
  Formatted /\ RootsOf(TheTree) # <<>> /\ TheTree.factMap # Undefined =>
    LET lines == Split(Text)
    IN \E g \in 1..Len(lines) :
         /\ lines[g] = <<"Grouped Results:">>
         /\ Len(lines) = g + ForestLines(TheTree, RootsOf(TheTree))
         /\ LaidOut(lines, TheTree, RootsOf(TheTree), g + 1, 0)

C10_Witness ==
  /\ Formatted
  /\ Details
  /\ Len(RootsOf(TheTree)) = 1
  /\ Len(ChildrenOf(RootsOf(TheTree)[1])) = 2
  /\ \E n \in Nodes(RootsOf(TheTree), 0) : n.depth = 2
  /\ "Rows (" \in Range(Text)
  /\ "Sum of Amount" \in Range(Text)

\* the envelope returned reports success
Succeeded == result # Undefined /\ ~result[1].isError

\* C11: in every terminal state, isError = false exactly when the operation is
\* one of the six recognized values, validation passed, exactly one awaited
\* collaborator call was issued and resolved, and nothing was caught (neither
\* a failed call nor a fault of the rendering); an unrecognized operation
\* always returns isError = true with a text that names the operation given
\* and lists the six valid ones, and issues no call at all.
C11_SuccessFlag ==
  Terminal =>
    /\ Succeeded <=> /\ args0.operation \in Operations
                     /\ ~MissingReportId
                     /\ ~MissingInstanceId
                     /\ Len(AwaitedCalls) = 1
                     /\ conn.settle = "resolve"
                     /\ caught = Undefined
    /\ args0.operation \notin Operations =>
         /\ pc = "done"
         /\ result[1].isError
         /\ calls = <<>>
         /\ Text[1] = "Unknown report operation: "
         /\ Text[2] = args0.operation
         /\ \A o \in Operations : o \in Range(SubSeq(Text, 3, Len(Text)))

\* an unrecognized operation has returned its error envelope
C11_Witness ==
  /\ pc = "done"
  /\ args0.operation = "delete"
  /\ result[1].isError
  /\ calls = <<>>
  /\ "getInstanceResults" \in Range(Text)

====
